---- MODULE Spec2Model ----
(***************************************************************************)
(* Model of fivox::EventSource (src/fivox/eventSource.cpp): the columnar   *)
(* event buffer, the R-tree over event positions, the bounding box, the    *)
(* binary / text file readers and writer, the chunked load, the frame and  *)
(* time controller, and the index under several threads.                   *)
(*                                                                         *)
(* A float is a pair <<n, d>> standing for the rational n/d (d > 0, lowest *)
(* terms).  <<0, 0>> is Indet, the content of a float that was allocated   *)
(* but never written (posix_memalign does not initialise the block).       *)
(* The float inputs are chosen so that every reciprocal taken by update()  *)
(* is exact in binary32 (powers of two).                                   *)
(***************************************************************************)
EXTENDS Integers, Sequences, FiniteSets, Bags, TLC

(* ------------------------------ bounds -------------------------------- *)
MaxEvents == 2
\* the width of size_t, scaled down from 64 bits
SizeBits == 8
\* the largest chunk count a source reports
MaxChunks == 2
\* the largest frame asked for
MaxFrame == 7

(* ------------------------------ floats -------------------------------- *)
F(n) == <<n, 1>>
Indet == <<0, 0>>
IsDef(a) == a[2] # 0

\* std::numeric_limits< float >::epsilon() = 2^-23
epsilon == <<1, 8388608>>

fabs(a) == IF a[1] < 0 THEN <<0 - a[1], a[2]>> ELSE a
FLess(a, b) == a[1] * b[2] < b[1] * a[2]
FLeq(a, b) == a[1] * b[2] <= b[1] * a[2]
FMin(a, b) == IF FLess(b, a) THEN b ELSE a
FMax(a, b) == IF FLess(a, b) THEN b ELSE a

\* 1.f / rad, for rad # 0
Recip(a) == IF a[1] > 0 THEN <<a[2], a[1]>> ELSE <<0 - a[2], 0 - a[1]>>

\* a size_t result: the value modulo 2^SizeBits
SizeT(x) == x % (2 ^ SizeBits)

(* ------------------------- program constants -------------------------- *)
magic == 65215
version == 1
POSX == 0
POSY == 1
POSZ == 2
RADIUS == 3
VALUE == 4
NUM_OFFSETS == 5
SizeofFloat == 4

(* ------------------------------ inputs -------------------------------- *)
Vec(x, y, z) == <<F(x), F(y), F(z)>>
pA == Vec(0, 1, 0)
pB == Vec(1, 0, 1)
Positions == { pA, pB }
\* 2^-24: not zero, and not above epsilon
Tiny == <<1, 16777216>>
Vals == { F(5), F(6) }
\* the (pos, rad, val) argument triples handed to update()
Inputs == { <<pA, F(2), F(5)>>, <<pB, Tiny, F(6)>> }
\* what a read of a never-written float may yield (powers of two, as such
\* a float can come back from a file as a radius)
Garbage == { F(4), F(8) }

(* --------------------------- bounding box ----------------------------- *)
\* vmml AABBf: default-constructed empty, merge() extends it to a point
EmptyBox == [empty |-> TRUE, min |-> Vec(0, 0, 0), max |-> Vec(0, 0, 0)]
Box(lo, hi) == [empty |-> FALSE, min |-> lo, max |-> hi]

merge_minOnly(bb, pos) ==
    IF bb.empty
    THEN Box(pos, pos)
    ELSE Box([k \in 1..3 |-> FMin(bb.min[k], pos[k])], bb.max)

merge(bb, pos) ==
    IF bb.empty
    THEN Box(pos, pos)
    ELSE Box([k \in 1..3 |-> FMin(bb.min[k], pos[k])],
             [k \in 1..3 |-> FMax(bb.max[k], pos[k])])

\* query boxes handed to findEvents
Areas == { Box(Vec(0, 0, 0), Vec(2, 2, 2)),
           Box(Vec(1, 0, 1), Vec(1, 0, 1)) }

(* ------------------------------ buffer -------------------------------- *)
\* the store: Impl::numEvents, allocSize, events, boundingBox, rtree.
\* events is the float block, C index k held at events[k + 1].  A read
\* past the end of the block yields a float of unknown content; a write
\* past the end lands outside the store.
\* calls is the record of the positions handed to update() so far: ever
\* passed, and passed with a valid index.
Store(n, a, e, bb, rt, c) ==
    [numEvents |-> n, allocSize |-> a, events |-> e, boundingBox |-> bb,
     rtree |-> rt, calls |-> c]

Cell(s, k) == IF k < Len(s.events) THEN s.events[k + 1] ELSE Indet
Poke(e, k, v) == IF k < Len(e) THEN [e EXCEPT ![k + 1] = v] ELSE e

getPositionsX(s, i) == Cell(s, s.numEvents * POSX + i)
getPositionsY(s, i) == Cell(s, s.numEvents * POSY + i)
getPositionsZ(s, i) == Cell(s, s.numEvents * POSZ + i)
getRadii(s, i) == Cell(s, s.numEvents * RADIUS + i)
getValues(s, i) == Cell(s, s.numEvents * VALUE + i)

\* the stored event i as seen through the five column accessors
Event(s, i) ==
    <<getPositionsX(s, i), getPositionsY(s, i), getPositionsZ(s, i),
      getRadii(s, i), getValues(s, i)>>
EventPos(s, i) ==
    <<getPositionsX(s, i), getPositionsY(s, i), getPositionsZ(s, i)>>

\* the floats that posix_memalign( &ptr, alignBoundary, size * sizeof(float) )
\* allocates for size = numEvents * NUM_OFFSETS, both products in size_t
AllocFloats(numEvents_) ==
    SizeT(SizeT(numEvents_ * NUM_OFFSETS) * SizeofFloat) \div SizeofFloat

\* a fresh block, contents indeterminate
FreshBlock(numEvents_) == [k \in 1..AllocFloats(numEvents_) |-> Indet]

Reallocates(s, numEvents_) == ~(numEvents_ < s.allocSize)

resize(s, numEvents_) ==
    IF ~Reallocates(s, numEvents_)
    THEN [s EXCEPT !.numEvents = numEvents_]
    ELSE [s EXCEPT !.numEvents = numEvents_,
                   !.allocSize = numEvents_,
                   !.events = FreshBlock(numEvents_)]

InRange_offByOne(s, i) == ~(s.numEvents < i)
InRange(s, i) == ~(s.numEvents <= i)

\* rtree.clear()
clear_forgotten(rt) == rt
clear(rt) == {}

StoredRadius(old, rad) ==
    IF FLess(epsilon, fabs(rad)) THEN Recip(rad) ELSE old

Passed(s, pos) == [s.calls EXCEPT !.passed = @ \cup {pos}]
Accepted(s, pos) ==
    [s.calls EXCEPT !.passed = @ \cup {pos}, !.accepted = @ \cup {pos}]

update(s, i, pos, rad, val) ==
    IF ~InRange(s, i)
    THEN [s EXCEPT !.calls = Passed(s, pos)]
    ELSE LET size == s.numEvents
             e1 == Poke(s.events, i + size * POSX, pos[1])
             e2 == Poke(e1, i + size * POSY, pos[2])
             e3 == Poke(e2, i + size * POSZ, pos[3])
             e4 == Poke(e3, i + size * RADIUS,
                        StoredRadius(Cell(s, i + size * RADIUS), rad))
             e5 == Poke(e4, i + size * VALUE, val)
         IN  [s EXCEPT !.boundingBox = merge(s.boundingBox, pos),
                       !.events = e5,
                       !.rtree = clear(s.rtree),
                       !.calls = Accepted(s, pos)]

(* ------------------------------ R-tree -------------------------------- *)
\* the rtree is the set of its Values, pairs <<Point, ordinal>>
RTreeOf(s) == { <<EventPos(s, i), i>> : i \in 0..(s.numEvents - 1) }

buildRTree(s) ==
    IF s.rtree # {}
    THEN s
    ELSE [s EXCEPT !.rtree = RTreeOf(s)]

PointDef(p) == \A k \in 1..3 : IsDef(p[k])
\* bgi::intersects( query ) for a point: inside the box, boundary included
Intersects(p, area) ==
    \A k \in 1..3 : FLeq(area.min[k], p[k]) /\ FLeq(p[k], area.max[k])

\* hits whose point is fully written: decided by the geometry
SureHits(s, area) ==
    { h \in s.rtree : PointDef(h[1]) /\ Intersects(h[1], area) }
\* hits whose point has a never-written coordinate: may or may not match
MaybeHits(s) == { h \in s.rtree : ~PointDef(h[1]) }

\* eventValues as a bag; val[h] is the float read for hit h
ValuesBag(val) ==
    [v \in { val[h] : h \in DOMAIN val } |->
        Cardinality({ h \in DOMAIN val : val[h] = v })]

\* maybe: the hits among MaybeHits that the query reports;
\* junk: what reading a never-written value float yields, per ordinal
findEvents(s, area, maybe, junk) ==
    IF s.rtree # {}
    THEN LET hits == SureHits(s, area) \cup maybe
             val == [h \in hits |->
                        IF IsDef(getValues(s, h[2]))
                        THEN getValues(s, h[2])
                        ELSE junk[h[2]]]
         IN  ValuesBag(val)
    ELSE EmptyBag

(* ------------------------------- files -------------------------------- *)
\* A file is its size in bytes, its 32-bit words (the view of readBinary:
\* iData[0], iData[1], then fData) and its lines (the view of readAscii).
\* A line is a comment, the count directive, or a data line with the
\* floats atof() makes of its tokens.
Comment == [kind |-> "comment"]
Count(n) == [kind |-> "count", n |-> n]
Data(tokens) == [kind |-> "data", tokens |-> tokens]
Data5(pos, rad, val) == Data(<<pos[1], pos[2], pos[3], rad, val>>)
Record5(pos, rad, val) == <<pos[1], pos[2], pos[3], rad, val>>

\* a text file: longer than one word; readBinary looks at its first word
\* only, which is not the magic
TextFile(w0, ls) ==
    [size |-> 64, words |-> <<w0>>, lines |-> ls]
\* the bytes of the binary files below hold no newline and no blank, so
\* readAscii sees one line with one token
BinaryFile(bytes, ws) ==
    [size |-> bytes, words |-> ws, lines |-> <<Data(<<F(0)>>)>>]

\* first words of the text files: the bytes "# Fi" and "Numb"
Word(b0, b1, b2, b3) == b0 + 256 * b1 + 65536 * b2 + 16777216 * b3
HashWord == Word(35, 32, 70, 105)
NumbWord == Word(78, 117, 109, 98)

\* the events the files hold
eA == <<pA, F(2), F(5)>>
eB == <<pB, F(0), F(6)>>
Line(e) == Data5(e[1], e[2], e[3])
Rec(e) == Record5(e[1], e[2], e[3])

Files == <<
    \* 1: well-formed text, two events
    TextFile(HashWord, <<Comment, Count(2), Line(eA), Line(eB)>>),
    \* 2: text, second data line has three tokens
    TextFile(HashWord, <<Comment, Count(2), Line(eB),
                         Data(<<F(1), F(0), F(1)>>)>>),
    \* 3: text, data line with no count line before it
    TextFile(HashWord, <<Comment, Line(eB)>>),
    \* 4: text, more data lines than the count
    TextFile(NumbWord, <<Count(1), Line(eB), Line(eA)>>),
    \* 5: text, an empty line after the count
    TextFile(NumbWord, <<Count(1), Data(<<>>)>>),
    \* 6: binary, two events
    BinaryFile(48, <<magic, version>> \o Rec(eA) \o Rec(eB)),
    \* 7: binary, version 2
    BinaryFile(28, <<magic, 2>> \o Rec(eB)),
    \* 8: binary, two bytes after the last record
    BinaryFile(30, <<magic, version>> \o Rec(eB)),
    \* 9: binary, the magic word only
    BinaryFile(4, <<magic>>),
    \* 10: binary, no events
    BinaryFile(8, <<magic, version>>)
>>
FileIds == 1..Len(Files)

_getBinarySize_loose(numEvents_) ==
    numEvents_ * 5 * SizeofFloat + SizeofFloat + SizeofFloat + SizeofFloat

_getBinarySize(numEvents_) ==
    numEvents_ * 5 * SizeofFloat + SizeofFloat + SizeofFloat

isBinary(f) == f.words[1] = magic

\* file.good() after the getline loop ran into the end of the file: eofbit
\* and failbit are set and close() does not clear them
GoodAfterEof == FALSE

Result(s, ret) == [st |-> s, ret |-> ret]

RECURSIVE readAsciiFrom(_, _, _, _)
readAsciiFrom(s, lines, k, index) ==
    IF k > Len(lines)
    THEN Result(s, GoodAfterEof)
    ELSE LET line == lines[k]
         IN  IF line.kind = "comment"
             THEN readAsciiFrom(s, lines, k + 1, index)
             ELSE IF line.kind = "count"
             THEN readAsciiFrom(resize(s, line.n), lines, k + 1, index)
             ELSE IF s.numEvents = 0
             THEN Result(s, FALSE)
             ELSE IF Len(line.tokens) # 5
             THEN Result(s, FALSE)
             ELSE LET event == line.tokens
                  IN  readAsciiFrom(
                          update(s, index,
                                 <<event[1], event[2], event[3]>>,
                                 event[4], event[5]),
                          lines, k + 1, index + 1)

readAscii(s, f) == readAsciiFrom(s, f.lines, 1, 0)

RECURSIVE readEvents(_, _, _, _)
readEvents(s, f, i, numEvents_) ==
    IF ~(i < numEvents_)
    THEN s
    ELSE LET index == 2 + 5 * i
             fData(k) == f.words[k + 1]
             pos == <<fData(index), fData(index + 1), fData(index + 2)>>
             radius == fData(index + 3)
             value == fData(index + 4)
         IN  readEvents(update(s, i, pos, radius, value), f, i + 1,
                        numEvents_)

readBinary(s, f) ==
    LET size == f.size
        nElems == size \div SizeofFloat
    IN  IF nElems = 0
        THEN Result(s, FALSE)
        ELSE IF ~isBinary(f)
        THEN Result(s, FALSE)
        ELSE IF 1 >= nElems \/ f.words[2] # version
        THEN Result(s, FALSE)
        ELSE LET numEvents_ == (nElems - 2) \div 5
             IN  IF _getBinarySize(numEvents_) < size
                 THEN Result(s, FALSE)
                 ELSE Result(readEvents(resize(s, numEvents_), f, 0,
                                        numEvents_), TRUE)

\* ascii: whether the text reader was run on the file
read(s, f) ==
    LET rb == readBinary(s, f)
    IN  IF rb.ret
        THEN [st |-> rb.st, ret |-> TRUE, ascii |-> FALSE]
        ELSE LET ra == readAscii(rb.st, f)
             IN  [st |-> ra.st, ret |-> ra.ret, ascii |-> TRUE]

\* the binary files of every size below the size of MaxEvents + 1 events:
\* magic, version and the records eA, eB, eA, ..., cut at bytes bytes
MaxBytes == _getBinarySize(MaxEvents + 1) - 1
RecordAt(i) == IF i % 2 = 0 THEN eA ELSE eB
WordAt(k) ==
    IF k = 0 THEN magic
    ELSE IF k = 1 THEN version
    ELSE Rec(RecordAt((k - 2) \div NUM_OFFSETS))[((k - 2) % NUM_OFFSETS) + 1]
SizedFile(bytes) ==
    BinaryFile(bytes, [k \in 1..(bytes \div SizeofFloat) |-> WordAt(k - 1)])

(* ------------------------------- write -------------------------------- *)
\* what write() reads from a float of the block: its content, or g when
\* the float was never written
Seen(a, g) == IF IsDef(a) THEN a ELSE g

RECURSIVE GCD(_, _)
GCD(a, b) == IF b = 0 THEN a ELSE GCD(b, a % b)
\* the rational n/d in lowest terms, d > 0
Ratio(n, d) == LET g == GCD(IF n < 0 THEN 0 - n ELSE n, d)
               IN  <<n \div g, d \div g>>

RECURSIVE Pow10(_)
Pow10(k) == IF k = 0 THEN 1 ELSE 10 * Pow10(k - 1)

\* operator<< of a float and atof() of the token it printed: the stream's
\* default precision keeps six significant decimal digits.  Magnitudes
\* from 0.01 up to 1000 (the decimals the buffer holds here are exact in
\* binary32)
Precision == 6
Shown(a) ==
    IF a[1] = 0
    THEN a
    ELSE LET m == fabs(a)
             \* decimals after the point: Precision - 1 - floor(log10(m))
             e == CHOOSE k \in 3..7 :
                      /\ m[2] * Pow10(Precision - 1) <= m[1] * Pow10(k)
                      /\ m[1] * Pow10(k) < m[2] * Pow10(Precision)
             digits == (2 * m[1] * Pow10(e) + m[2]) \div (2 * m[2])
         IN  Ratio(IF a[1] < 0 THEN 0 - digits ELSE digits, Pow10(e))

Formats == { "binary", "ascii" }

\* the file write() makes of the store; g is what the never-written
\* floats of the block read as
write(s, format, g) ==
    LET n == s.numEvents
        Field(i, c) == Seen(Event(s, i)[c], g)
    IN  IF format = "binary"
        THEN BinaryFile(_getBinarySize(n),
                        <<magic, version>> \o
                        [k \in 1..(NUM_OFFSETS * n) |->
                            Field((k - 1) \div NUM_OFFSETS,
                                  ((k - 1) % NUM_OFFSETS) + 1)])
        ELSE TextFile(HashWord,
                      <<Comment, Comment, Comment, Comment, Count(n)>> \o
                      [i \in 1..n |->
                          Data([c \in 1..NUM_OFFSETS |->
                                   Shown(Field(i - 1, c))])])

(* ------------------------------- frames ------------------------------- *)
\* float arithmetic on the rationals (exact for the times and steps used)
FAdd(a, b) == Ratio(a[1] * b[2] + b[1] * a[2], a[2] * b[2])
FSub(a, b) == Ratio(a[1] * b[2] - b[1] * a[2], a[2] * b[2])
FMul(a, b) == Ratio(a[1] * b[1], a[2] * b[2])
\* a / b for b > 0
FDiv(a, b) == Ratio(a[1] * b[2], a[2] * b[1])
floor(a) == F(a[1] \div a[2])
ceil(a) == F(0 - ((0 - a[1]) \div a[2]))
\* float to unsigned int, for a float that is not negative: truncation
ToUint(a) == a[1] \div a[2]
Vector2ui(x, y) == <<ToUint(x), ToUint(y)>>

getFrameRange_closed(src, dt_, duration_) ==
    LET interval == src.timeRange
    IN  IF src.type = "event"
        THEN LET endTime == FSub(interval[2], duration_)
             IN  IF FLess(endTime, interval[1])
                 THEN <<0, 0>>
                 ELSE Vector2ui(floor(FDiv(interval[1], dt_)),
                                floor(FDiv(endTime, dt_)))
        ELSE Vector2ui(floor(FDiv(interval[1], dt_)),
                       ceil(FDiv(interval[2], dt_)))

getFrameRange(src, dt_, duration_) ==
    LET interval == src.timeRange
    IN  IF src.type = "event"
        THEN LET endTime == FSub(interval[2], duration_)
             IN  IF FLess(endTime, interval[1])
                 THEN <<0, 0>>
                 ELSE Vector2ui(floor(FDiv(interval[1], dt_)),
                                FAdd(floor(FDiv(endTime, dt_)), F(1)))
        ELSE Vector2ui(floor(FDiv(interval[1], dt_)),
                       ceil(FDiv(interval[2], dt_)))

isInFrameRange(src, dt_, duration_, frame) ==
    LET frameRange == getFrameRange(src, dt_, duration_)
    IN  frame >= frameRange[1] /\ frame < frameRange[2]

\* setFrame: what it returns and the currentTime it leaves
setFrame_unchecked(src, dt_, duration_, time, frame) ==
    [ret |-> TRUE,
     currentTime |-> FAdd(src.timeRange[1], FMul(dt_, F(frame)))]

setFrame(src, dt_, duration_, time, frame) ==
    IF ~isInFrameRange(src, dt_, duration_, frame)
    THEN [ret |-> FALSE, currentTime |-> time]
    ELSE [ret |-> TRUE,
          currentTime |-> FAdd(src.timeRange[1], FMul(dt_, F(frame)))]

(* -------------------------------- load -------------------------------- *)
\* the source-specific _load: count is what it reports, the number of
\* events it loaded or a negative sentinel; the events it loads go into
\* the buffer through resize and update
RECURSIVE loadEvents(_, _, _)
loadEvents(s, i, count) ==
    IF ~(i < count)
    THEN s
    ELSE LET e == RecordAt(i)
         IN  loadEvents(update(s, i, e[1], e[2], e[3]), i + 1, count)
_load(s, chunkIndex, numChunks, count) ==
    IF count > 0 THEN loadEvents(resize(s, count), 0, count) ELSE s
\* what _load may report
Counts == { 0 - 1, 0, 1, 2 }

\* thrown: the exception load() ends with, or "none"; delegated: the calls
\* of _load it made, with what each returned
load(s, chunkIndex, numChunks, getNumChunks, count) ==
    IF numChunks = 0
    THEN [st |-> s, thrown |-> "runtime_error", delegated |-> <<>>]
    ELSE IF SizeT(chunkIndex + numChunks) > getNumChunks
    THEN [st |-> s, thrown |-> "out_of_range", delegated |-> <<>>]
    ELSE [st |-> _load(s, chunkIndex, numChunks, count),
          thrown |-> "none",
          delegated |-> <<[chunkIndex |-> chunkIndex,
                           numChunks |-> numChunks, ret |-> count]>>,
          ret |-> count]

(* ------------------------------- state -------------------------------- *)
VARIABLES numEvents, allocSize, events, boundingBox, rtree,
          calls,    \* positions handed to update(): passed and accepted
          op,       \* the last operation, its arguments and its result
          dt, duration, currentTime,
          source,   \* what the concrete source answers: _getTimeRange(),
                    \* _getType(), _getNumChunks()
          disk,     \* the file last written by write()
          threads   \* where each thread stands inside buildRTree, update
                    \* or findEvents

vars == <<numEvents, allocSize, events, boundingBox, rtree, calls, op,
          dt, duration, currentTime, source, disk, threads>>

\* the state outside the event store
others == <<dt, duration, currentTime, source, disk, threads>>

St == Store(numEvents, allocSize, events, boundingBox, rtree, calls)

\* the store after a call (the set binds the result, so it is computed once)
Becomes(t) ==
    \E s \in {t} :
    /\ numEvents' = s.numEvents
    /\ allocSize' = s.allocSize
    /\ events' = s.events
    /\ boundingBox' = s.boundingBox
    /\ rtree' = s.rtree
    /\ calls' = s.calls
    /\ UNCHANGED others

\* the store after construction
InitStore ==
    /\ numEvents = 0
    /\ allocSize = 0
    /\ events = <<>>
    /\ boundingBox = EmptyBox
    /\ rtree = {}
    /\ calls = [passed |-> {}, accepted |-> {}]
    /\ op = [name |-> "init"]

\* a source of the event kind with one chunk, data over [0, 1], dt = 1 and
\* duration = 0; nothing written yet, no thread inside the index
DefaultSource == [timeRange |-> <<F(0), F(1)>>, type |-> "event",
                  numChunks |-> 1]
NoFile == [size |-> 0, words |-> <<>>, lines |-> <<>>]
Idle == [t \in {} |-> "idle"]

InitOthers ==
    /\ dt = F(1)
    /\ duration = F(0)
    /\ currentTime = F(0 - 1)
    /\ source = DefaultSource
    /\ disk = NoFile
    /\ threads = Idle

Init == InitStore /\ InitOthers

Resize ==
    \E n \in 0..MaxEvents :
        /\ Becomes(resize(St, n))
        /\ op' = [name |-> "resize", n |-> n,
                  realloc |-> Reallocates(St, n)]

\* resize to an event count whose byte size does not fit size_t:
\* 2^(SizeBits - 2) events take 5 * 2^SizeBits bytes
WrapEvents == 2 ^ (SizeBits - 2)
ResizeWide ==
    \E n \in { WrapEvents } :
        /\ Becomes(resize(St, n))
        /\ op' = [name |-> "resize", n |-> n,
                  realloc |-> Reallocates(St, n)]

Update ==
    \E i \in 0..MaxEvents, in \in Inputs :
        LET pos == in[1]
            rad == in[2]
            val == in[3]
        IN  /\ Becomes(update(St, i, pos, rad, val))
            /\ op' = IF InRange(St, i)
                     THEN [name |-> "update", i |-> i, pos |-> pos,
                           rad |-> rad, val |-> val,
                           afterBuild |-> (op.name = "buildRTree")]
                     ELSE [name |-> "update", i |-> i]

\* o records an update that passed the index check
IsUpdate(o) == o.name = "update" /\ "pos" \in DOMAIN o

BuildRTree ==
    /\ Becomes(buildRTree(St))
    /\ op' = [name |-> "buildRTree",
              prev |-> IF IsUpdate(op) THEN op ELSE [name |-> "other"]]

\* ordinals of the index whose value float was never written
IndetOrds == { h[2] : h \in { g \in rtree : ~IsDef(getValues(St, g[2])) } }

\* what led to a query: an update that followed a build ("update"), or
\* such an update and then a build ("rebuild")
Context ==
    IF IsUpdate(op) /\ op.afterBuild
    THEN [kind |-> "update", pos |-> op.pos, val |-> op.val]
    ELSE IF op.name = "buildRTree" /\ IsUpdate(op.prev) /\ op.prev.afterBuild
    THEN [kind |-> "rebuild", pos |-> op.prev.pos, val |-> op.prev.val]
    ELSE [kind |-> "other"]

FindEvents ==
    \E area \in Areas, maybe \in SUBSET MaybeHits(St),
       junk \in [IndetOrds -> Garbage] :
        /\ op' = [name |-> "findEvents", area |-> area,
                  eventValues |-> findEvents(St, area, maybe, junk),
                  ctx |-> Context]
        /\ UNCHANGED <<numEvents, allocSize, events, boundingBox, rtree,
                       calls>>
        /\ UNCHANGED others

\* operator[]: overwrite of one value through the mutable view, at an
\* index below numEvents
SetValue ==
    \E i \in 0..(numEvents - 1), val \in Vals :
        /\ events' = Poke(events, numEvents * VALUE + i, val)
        /\ op' = [name |-> "setValue", i |-> i, val |-> val]
        /\ UNCHANGED <<numEvents, allocSize, boundingBox, rtree, calls>>
        /\ UNCHANGED others

Read ==
    \E id \in FileIds :
        \E r \in {read(St, Files[id])} :
            /\ Becomes(r.st)
            /\ op' = [name |-> "read", file |-> id, ret |-> r.ret,
                      ascii |-> r.ascii]

Write ==
    \E format \in Formats, g \in Garbage :
        /\ disk' = write(St, format, g)
        /\ op' = [name |-> "write", format |-> format]
        /\ UNCHANGED <<numEvents, allocSize, events, boundingBox, rtree,
                       calls>>
        /\ UNCHANGED <<dt, duration, currentTime, source, threads>>

\* read() of the file that write() made
ReadBack ==
    /\ disk # NoFile
    /\ \E r \in {read(St, disk)} :
           /\ Becomes(r.st)
           /\ op' = [name |-> "readBack", ret |-> r.ret, ascii |-> r.ascii]

ReadBinary ==
    \E bytes \in 0..MaxBytes :
        \E r \in {readBinary(St, SizedFile(bytes))} :
            /\ Becomes(r.st)
            /\ op' = [name |-> "readBinary", size |-> bytes, ret |-> r.ret]

\* the chunk arguments tried: small ones and the largest size_t
ChunkArgs == { 0, 1, 2, 2 ^ SizeBits - 1 }

\* the record of a load: its arguments and how it ended
Loaded(name, chunkIndex, numChunks, r) ==
    [c \in {"name", "chunkIndex", "numChunks"} \cup (DOMAIN r \ {"st"}) |->
        IF c = "name" THEN name
        ELSE IF c = "chunkIndex" THEN chunkIndex
        ELSE IF c = "numChunks" THEN numChunks
        ELSE r[c]]

Load ==
    \E chunkIndex \in ChunkArgs, numChunks \in ChunkArgs, count \in Counts :
        \E r \in {load(St, chunkIndex, numChunks, source.numChunks, count)} :
            /\ Becomes(r.st)
            /\ op' = Loaded("load", chunkIndex, numChunks, r)

\* load() with no arguments
LoadAll ==
    \E count \in Counts :
        \E r \in {load(St, 0, source.numChunks, source.numChunks, count)} :
            /\ Becomes(r.st)
            /\ op' = Loaded("loadAll", 0, source.numChunks, r)

\* the time steps, event durations, times and source kinds tried
Dts == { <<1, 2>>, F(2) }
Durations == { F(0), F(3), F(11) }
Times == { F(0), F(5) }
TimeRanges == { <<F(0), F(3)>>, <<F(0), F(10)>>, <<F(3), F(3)>>,
                <<F(3), F(10)>> }
Types == { "event", "frame" }

GetFrameRange ==
    /\ op' = [name |-> "getFrameRange",
              range |-> getFrameRange(source, dt, duration)]
    /\ UNCHANGED <<numEvents, allocSize, events, boundingBox, rtree, calls>>
    /\ UNCHANGED others

IsInFrameRange ==
    \E frame \in 0..MaxFrame :
        /\ op' = [name |-> "isInFrameRange", frame |-> frame,
                  ret |-> isInFrameRange(source, dt, duration, frame)]
        /\ UNCHANGED <<numEvents, allocSize, events, boundingBox, rtree,
                       calls>>
        /\ UNCHANGED others

SetFrame ==
    \E frame \in 0..MaxFrame :
        \E r \in {setFrame(source, dt, duration, currentTime, frame)} :
            /\ currentTime' = r.currentTime
            /\ op' = [name |-> "setFrame", frame |-> frame, ret |-> r.ret]
            /\ UNCHANGED <<numEvents, allocSize, events, boundingBox, rtree,
                           calls>>
            /\ UNCHANGED <<dt, duration, source, disk, threads>>

SetTime ==
    \E time \in Times :
        /\ currentTime' = time
        /\ op' = [name |-> "setTime", time |-> time]
        /\ UNCHANGED <<numEvents, allocSize, events, boundingBox, rtree,
                       calls>>
        /\ UNCHANGED <<dt, duration, source, disk, threads>>

SetDt ==
    \E dt_ \in Dts :
        /\ dt' = dt_
        /\ op' = [name |-> "setDt", dt |-> dt_]
        /\ UNCHANGED <<numEvents, allocSize, events, boundingBox, rtree,
                       calls>>
        /\ UNCHANGED <<duration, currentTime, source, disk, threads>>

(* ------------------------------ threads ------------------------------ *)
\* One thread calls buildRTree and update, the others call findEvents.
\* The code takes no lock (l.292-313, l.249-275, l.360-394), so each call
\* is a sequence of steps that interleave: the assignment to rtree and
\* rtree.clear() begin in one step and end in a later one, and findEvents
\* tests rtree.empty() in one step and queries in the next.
Writer == "w"
Readers == { "r1", "r2" }
AtRest == [pc |-> "idle"]

\* the writer is inside the assignment to rtree or inside rtree.clear()
Modifying == threads[Writer].pc \in { "assigning", "clearing" }
\* the tree the writer is moving into rtree
Incoming ==
    IF threads[Writer].pc = "assigning" THEN threads[Writer].rt ELSE {}

\* buildRTree up to the start of rtree = boost::move( rt )
BuildStart ==
    /\ threads[Writer].pc = "idle"
    /\ IF rtree # {}
       THEN /\ op' = [name |-> "buildRTree", step |-> "return"]
            /\ UNCHANGED threads
       ELSE /\ op' = [name |-> "buildRTree", step |-> "start"]
            /\ threads' = [threads EXCEPT ![Writer] =
                               [pc |-> "assigning", rt |-> RTreeOf(St)]]
    /\ UNCHANGED <<numEvents, allocSize, events, boundingBox, rtree, calls>>
    /\ UNCHANGED <<dt, duration, currentTime, source, disk>>

\* the end of the assignment
BuildFinish ==
    /\ threads[Writer].pc = "assigning"
    /\ rtree' = threads[Writer].rt
    /\ threads' = [threads EXCEPT ![Writer] = AtRest]
    /\ op' = [name |-> "buildRTree", step |-> "finish"]
    /\ UNCHANGED <<numEvents, allocSize, events, boundingBox, calls>>
    /\ UNCHANGED <<dt, duration, currentTime, source, disk>>

\* update up to the start of rtree.clear()
UpdateStart ==
    /\ threads[Writer].pc = "idle"
    /\ \E i \in 0..MaxEvents, in \in Inputs :
           \E s \in {update(St, i, in[1], in[2], in[3])} :
               /\ events' = s.events
               /\ boundingBox' = s.boundingBox
               /\ calls' = s.calls
               /\ threads' = IF InRange(St, i)
                             THEN [threads EXCEPT ![Writer] =
                                      [pc |-> "clearing"]]
                             ELSE threads
               /\ op' = [name |-> "update", i |-> i,
                         step |-> IF InRange(St, i) THEN "start"
                                  ELSE "return"]
    /\ UNCHANGED <<numEvents, allocSize, rtree>>
    /\ UNCHANGED <<dt, duration, currentTime, source, disk>>

\* the end of rtree.clear()
UpdateFinish ==
    /\ threads[Writer].pc = "clearing"
    /\ rtree' = clear(rtree)
    /\ threads' = [threads EXCEPT ![Writer] = AtRest]
    /\ op' = [name |-> "update", step |-> "finish"]
    /\ UNCHANGED <<numEvents, allocSize, events, boundingBox, calls>>
    /\ UNCHANGED <<dt, duration, currentTime, source, disk>>

\* findEvents, the test of rtree.empty(): a test made while the writer
\* is modifying the tree is a data race and may see either answer
FindTest(t) ==
    /\ threads[t].pc = "idle"
    /\ \E area \in Areas,
          empty \in (IF Modifying THEN BOOLEAN ELSE { rtree = {} }) :
           /\ threads' = IF empty
                         THEN threads
                         ELSE [threads EXCEPT ![t] =
                                  [pc |-> "query", area |-> area]]
           /\ op' = [name |-> "findEvents", step |-> "test", thread |-> t,
                     during |-> threads[Writer].pc, empty |-> empty]
    /\ UNCHANGED <<numEvents, allocSize, events, boundingBox, rtree, calls>>
    /\ UNCHANGED <<dt, duration, currentTime, source, disk>>

\* findEvents, the query and the reads of the values: a query made while
\* the writer is modifying the tree may find any part of the old and of
\* the incoming tree
FindQuery(t) ==
    /\ threads[t].pc = "query"
    /\ \E seen \in (IF Modifying THEN SUBSET (rtree \cup Incoming)
                    ELSE { rtree }) :
           op' = [name |-> "findEvents", step |-> "query", thread |-> t,
                  during |-> threads[Writer].pc, seen |-> seen,
                  eventValues |->
                      findEvents([St EXCEPT !.rtree = seen],
                                 threads[t].area, {}, <<>>)]
    /\ threads' = [threads EXCEPT ![t] = AtRest]
    /\ UNCHANGED <<numEvents, allocSize, events, boundingBox, rtree, calls>>
    /\ UNCHANGED <<dt, duration, currentTime, source, disk>>

Next ==
    \/ Resize
    \/ Update
    \/ BuildRTree
    \/ FindEvents
    \/ SetValue
    \/ Read

Spec == Init /\ [][Next]_vars

\* the buffer alone: sequences of resize and update calls
NextBuffer ==
    \/ Resize
    \/ Update

SpecBuffer == Init /\ [][NextBuffer]_vars

\* the buffer and its index: resize, update, buildRTree and findEvents
NextIndex ==
    \/ Resize
    \/ Update
    \/ BuildRTree
    \/ FindEvents

SpecIndex == Init /\ [][NextIndex]_vars

\* the files made of a store: resize and update build the store while
\* nothing is written yet, then it is written and read back, again and
\* again
NextFile ==
    \/ disk = NoFile /\ Resize
    \/ disk = NoFile /\ Update
    \/ Write
    \/ ReadBack

SpecFile == Init /\ [][NextFile]_vars

\* the binary reader on files of every size, over the stores that resize
\* and earlier reads make
NextBinary ==
    \/ Resize
    \/ ReadBinary

SpecBinary == Init /\ [][NextBinary]_vars

\* the chunked load of a source that reports 0 to MaxChunks chunks
InitLoad ==
    /\ InitStore
    /\ dt = F(1)
    /\ duration = F(0)
    /\ currentTime = F(0 - 1)
    /\ source \in { [DefaultSource EXCEPT !.numChunks = c] :
                        c \in 0..MaxChunks }
    /\ disk = NoFile
    /\ threads = Idle

NextLoad ==
    \/ Load
    \/ LoadAll

SpecLoad == InitLoad /\ [][NextLoad]_vars

\* the frame and time controller of a source of either kind
InitFrames ==
    /\ InitStore
    /\ dt \in Dts
    /\ duration \in Durations
    /\ currentTime = F(0 - 1)
    /\ source \in { [DefaultSource EXCEPT !.timeRange = i, !.type = k] :
                        i \in TimeRanges, k \in Types }
    /\ disk = NoFile
    /\ threads = Idle

NextFrames ==
    \/ GetFrameRange
    \/ IsInFrameRange
    \/ SetFrame
    \/ SetTime
    \/ SetDt

SpecFrames == InitFrames /\ [][NextFrames]_vars

\* the index of a store of two loaded events under one writer thread and
\* two reader threads
InitThreads ==
    /\ \E s \in {_load(Store(0, 0, <<>>, EmptyBox, {},
                             [passed |-> {}, accepted |-> {}]), 0, 1, 2)} :
           /\ numEvents = s.numEvents
           /\ allocSize = s.allocSize
           /\ events = s.events
           /\ boundingBox = s.boundingBox
           /\ rtree = s.rtree
           /\ calls = s.calls
    /\ op = [name |-> "init"]
    /\ dt = F(1)
    /\ duration = F(0)
    /\ currentTime = F(0 - 1)
    /\ source = DefaultSource
    /\ disk = NoFile
    /\ threads = [t \in {Writer} \cup Readers |-> AtRest]

NextThreads ==
    \/ BuildStart
    \/ BuildFinish
    \/ UpdateStart
    \/ UpdateFinish
    \/ \E t \in Readers : FindTest(t)
    \/ \E t \in Readers : FindQuery(t)

SpecThreads == InitThreads /\ [][NextThreads]_vars

\* the buffer under resize to any count, update, overwrites of values and
\* read
NextLayout ==
    \/ Resize
    \/ ResizeWide
    \/ Update
    \/ SetValue
    \/ Read

SpecLayout == Init /\ [][NextLayout]_vars

TypeOK ==
    /\ numEvents \in 0..MaxEvents
    /\ allocSize \in 0..MaxEvents
    /\ Len(events) = NUM_OFFSETS * allocSize

(* ----------------------- what the claims speak of --------------------- *)
\* the program's own state, without the records kept for the claims
Program == <<numEvents, allocSize, events, boundingBox, rtree>>

\* every float of the columns in use has been written
AllWritten(s) == \A k \in 0..(NUM_OFFSETS * s.numEvents - 1) : IsDef(Cell(s, k))
\* and so has every float the index was built from or points at
Determinate(s) ==
    /\ AllWritten(s)
    /\ \A h \in s.rtree : PointDef(h[1]) /\ IsDef(getValues(s, h[2]))

\* the values of the events whose stored position lies inside area
Inside(s, area) ==
    { i \in 0..(s.numEvents - 1) : Intersects(EventPos(s, i), area) }
ExpectedValues(s, area) ==
    [v \in { getValues(s, i) : i \in Inside(s, area) } |->
        Cardinality({ i \in Inside(s, area) : getValues(s, i) = v })]

\* the minimal axis-aligned box around a set of points
Least(S) == CHOOSE a \in S : \A b \in S : FLeq(a, b)
Greatest(S) == CHOOSE a \in S : \A b \in S : FLeq(b, a)
Hull(S) ==
    IF S = {}
    THEN EmptyBox
    ELSE Box([k \in 1..3 |-> Least({ p[k] : p \in S })],
             [k \in 1..3 |-> Greatest({ p[k] : p \in S })])

\* box b covers box a
Covers(b, a) ==
    \/ a.empty
    \/ /\ ~b.empty
       /\ \A k \in 1..3 : FLeq(b.min[k], a.min[k]) /\ FLeq(a.max[k], b.max[k])

C2_IndexCurrent == rtree # {} => rtree = RTreeOf(St)

(* -------------------------------- C3 ---------------------------------- *)
\* C3: on a buffer whose events are all written, findEvents(box) returns
\* one value per event i < numEvents whose position lies inside box and
\* nothing else when the index is built, and nothing when it is not.
C3_ExactResult ==
    (op.name = "findEvents" /\ Determinate(St))
    => op.eventValues =
           (IF rtree # {} THEN ExpectedValues(St, op.area) ELSE EmptyBag)

(* -------------------------------- C4 ---------------------------------- *)
\* the radius C4 expects update() to store
ClaimedRadius(rad) == IF FLess(epsilon, fabs(rad)) THEN Recip(rad) ELSE rad

\* C4: after update(i, pos, radius, value) with i < numEvents, on a buffer
\* whose floats are all written, event i holds pos, value and 1/radius (the
\* radius itself when |radius| <= epsilon), and every other event is as
\* before.
C4_UpdateWrites ==
    [][ (IsUpdate(op') /\ AllWritten(St))
        => /\ Event(St', op'.i)
                = <<op'.pos[1], op'.pos[2], op'.pos[3],
                    ClaimedRadius(op'.rad), op'.val>>
           /\ \A j \in 0..(numEvents - 1) :
                  j # op'.i => Event(St', j) = Event(St, j) ]_vars

(* -------------------------------- C5 ---------------------------------- *)
\* C5: update(i, ...) with i >= numEvents writes nothing: the columns,
\* numEvents, allocSize, the bounding box and the index stay as they were.
C5_DroppedUpdate ==
    [][ (op'.name = "update" /\ op'.i >= numEvents)
        => UNCHANGED Program ]_vars

C5_Witness ==
    /\ op.name = "update"
    /\ op.i >= numEvents
    /\ numEvents > 0
    /\ rtree # {}
    /\ ~boundingBox.empty

(* -------------------------------- C6 ---------------------------------- *)
\* C6: resize(n) sets numEvents to n; with n <= allocSize it allocates
\* nothing and leaves allocSize and the block alone; with n > allocSize it
\* allocates a block and sets allocSize to n.
C6_ResizeCapacity ==
    [][ op'.name = "resize"
        => /\ numEvents' = op'.n
           /\ op'.n <= allocSize
              => (~op'.realloc /\ allocSize' = allocSize /\ events' = events)
           /\ op'.n > allocSize
              => (op'.realloc /\ allocSize' = op'.n) ]_vars

(* -------------------------------- C7 ---------------------------------- *)
\* C7: a shrinking resize(n) of a fully written buffer, n < numEvents and
\* no reallocation, leaves the five fields read for every event i < n as
\* they were read before.
C7_ShrinkKeepsEvents ==
    [][ (op'.name = "resize" /\ op'.n < numEvents /\ ~op'.realloc
           /\ AllWritten(St))
        => \A i \in 0..(op'.n - 1) : Event(St', i) = Event(St, i) ]_vars

(* -------------------------------- C8 ---------------------------------- *)
\* C8 (as claimed): the bounding box is the minimal box around every
\* position ever passed to update.
C8_BoxOfPassed == boundingBox = Hull(calls.passed)

\* C8 (amended): the bounding box is the minimal box around every position
\* passed to an update with i < numEvents (an update with i >= numEvents
\* merges nothing), and no call makes the box smaller.
C8_BoxOfAccepted ==
    /\ [](boundingBox = Hull(calls.accepted))
    /\ [][Covers(boundingBox', boundingBox)]_vars

C8_Witness ==
    /\ calls.accepted = Positions
    /\ boundingBox = Box(Vec(0, 0, 0), Vec(1, 1, 1))
    /\ op.name = "update"
    /\ op.i >= numEvents

(* -------------------------------- C9 ---------------------------------- *)
\* the files on which read() fails for a reason C9 lists: a data line
\* without five tokens after the count, no count line, bad version, size
\* mismatch
FailingFiles == { 2, 3, 5, 7, 8, 9 }

\* C9: a read() of such a file that returns false leaves numEvents, the
\* columns, the bounding box and the index as they were.
C9_FailedReadKeepsState ==
    [][ (op'.name = "read" /\ op'.file \in FailingFiles /\ ~op'.ret)
        => UNCHANGED Program ]_vars

(* -------------------------------- C10 --------------------------------- *)
FirstWordIsMagic(f) == Len(f.words) >= 1 /\ f.words[1] = magic
BadVersion(f) ==
    FirstWordIsMagic(f) /\ Len(f.words) >= 2 /\ f.words[2] # version

\* C10: read() hands a file to the text reader when its first word is not
\* the magic; on the magic followed by a version other than 1 it returns
\* failure and the text reader is not run.
C10_FormatDetection ==
    op.name = "read"
    => /\ ~FirstWordIsMagic(Files[op.file]) => op.ascii
       /\ BadVersion(Files[op.file]) => (~op.ret /\ ~op.ascii)

(* -------------------------------- C11 --------------------------------- *)
IsComment(line) == line.kind = "comment"
NotComment(line) == ~IsComment(line)
\* the first line of f that is not a comment is a data line
DataBeforeCount(f) ==
    LET ls == SelectSeq(f.lines, NotComment)
    IN  ls # <<>> /\ ls[1].kind = "data"

\* C11: a read() that hands the text reader a file whose first data line
\* comes before any "Number of events:" line fails and writes no event,
\* whatever the store held before: numEvents, the columns and the bounding
\* box stay as they were.
C11_DataBeforeCount ==
    [][ (op'.name = "read" /\ op'.ascii /\ DataBeforeCount(Files[op'.file]))
        => (~op'.ret /\ UNCHANGED <<numEvents, events, boundingBox>>) ]_vars

(* -------------------------------- C12 --------------------------------- *)
\* C12: write(file, binary) of a store whose events are all written,
\* followed by read(file), succeeds and leaves numEvents and the five
\* fields of every event as they were before the write.
C12_BinaryRoundTrip ==
    [][ (op.name = "write" /\ op.format = "binary" /\ AllWritten(St)
           /\ op'.name = "readBack")
        => /\ op'.ret
           /\ numEvents' = numEvents
           /\ \A i \in 0..(numEvents - 1) : Event(St', i) = Event(St, i)
      ]_vars

(* -------------------------------- C13 --------------------------------- *)
\* the lines of f that are not comments
Content(f) == SelectSeq(f.lines, NotComment)
\* comment lines, one count line, then exactly that many data lines of
\* five tokens each
WellFormedText(f) ==
    LET ls == Content(f)
    IN  /\ ~FirstWordIsMagic(f)
        /\ ls # <<>>
        /\ ls[1].kind = "count"
        /\ Len(ls) = 1 + ls[1].n
        /\ \A k \in 2..Len(ls) :
               ls[k].kind = "data" /\ Len(ls[k].tokens) = NUM_OFFSETS

\* C13: read() of a well-formed text file returns success, sets numEvents
\* to the count N of the file and leaves the position and the value of
\* the k-th data line (k from 0) in event k.
C13_WellFormedTextRead ==
    (op.name = "read" /\ WellFormedText(Files[op.file]))
    => LET ls == Content(Files[op.file])
       IN  /\ op.ret
           /\ numEvents = ls[1].n
           /\ \A k \in 0..(numEvents - 1) :
                  LET event == ls[k + 2].tokens
                  IN  /\ EventPos(St, k) = <<event[1], event[2], event[3]>>
                      /\ getValues(St, k) = event[5]

(* -------------------------------- C14 --------------------------------- *)
\* C14: readBinary on a file of S bytes with the right magic and version
\* succeeds only if S = 8 + 20 * k for some k >= 0, and then numEvents is k
\* and events 0..k-1 hold the positions and values of the k records; on
\* every other S it returns failure and leaves numEvents, allocSize, the
\* block, the bounding box and the index as they were.
C14_BinarySizeCheck ==
    [][ op'.name = "readBinary"
        => /\ op'.ret
              => \E k \in 0..(MaxEvents + 1) :
                     /\ op'.size = 8 + 20 * k
                     /\ numEvents' = k
                     /\ \A i \in 0..(k - 1) :
                            /\ EventPos(St', i) = RecordAt(i)[1]
                            /\ getValues(St', i) = RecordAt(i)[3]
           /\ (\A k \in 0..(MaxEvents + 1) : op'.size # 8 + 20 * k)
              => ~op'.ret
           /\ ~op'.ret => UNCHANGED Program ]_vars

\* a file of MaxEvents records has been read
C14_Witness ==
    /\ op.name = "readBinary"
    /\ op.ret
    /\ op.size = _getBinarySize(MaxEvents)
    /\ numEvents = MaxEvents
    /\ calls.accepted = Positions

(* -------------------------------- C15 --------------------------------- *)
\* the arguments C15 expects load() to refuse: no chunk asked for, or the
\* sum of the two, as a number, above the chunk count
MustFail(o) ==
    o.numChunks = 0 \/ o.chunkIndex + o.numChunks > source.numChunks

\* C15: load(chunkIndex, numChunks) with numChunks = 0 or with
\* chunkIndex + numChunks above getNumChunks() ends with an exception, has
\* not called _load and leaves the store as it was; with any other
\* arguments it calls _load once with the same arguments and returns what
\* _load returned.
C15_LoadChecksRange ==
    [][ op'.name = "load"
        => IF MustFail(op')
           THEN /\ op'.thrown # "none"
                /\ op'.delegated = <<>>
                /\ UNCHANGED Program
           ELSE /\ op'.thrown = "none"
                /\ Len(op'.delegated) = 1
                /\ op'.delegated[1].chunkIndex = op'.chunkIndex
                /\ op'.delegated[1].numChunks = op'.numChunks
                /\ op'.ret = op'.delegated[1].ret ]_vars

(* -------------------------------- C16 --------------------------------- *)
\* C16: load() ends without an exception for every chunk count C, and has
\* called _load once, for chunks [0, C), and returned its count.
C16_LoadAll ==
    op.name = "loadAll"
    => /\ op.thrown = "none"
       /\ Len(op.delegated) = 1
       /\ op.delegated[1].chunkIndex = 0
       /\ op.delegated[1].numChunks = source.numChunks
       /\ op.ret = op.delegated[1].ret

(* -------------------------------- C17 --------------------------------- *)
\* n = floor(x / step): n * step <= x < (n + 1) * step
IsFloorOf(n, x, step) ==
    FLeq(FMul(F(n), step), x) /\ FLess(x, FMul(F(n + 1), step))
\* n = ceil(x / step): (n - 1) * step < x <= n * step
IsCeilOf(n, x, step) ==
    FLess(FMul(F(n - 1), step), x) /\ FLeq(x, FMul(F(n), step))

\* r is the frame range C17 gives for the source, dt and duration
ClaimedRange(r) ==
    LET t0 == source.timeRange[1]
        t1 == source.timeRange[2]
        endTime == FSub(t1, duration)
    IN  IF source.type = "event"
        THEN IF FLess(endTime, t0)
             THEN r = <<0, 0>>
             ELSE IsFloorOf(r[1], t0, dt) /\ IsFloorOf(r[2] - 1, endTime, dt)
        ELSE IsFloorOf(r[1], t0, dt) /\ IsCeilOf(r[2], t1, dt)

\* the worked example: t0 = 0, t1 = 10, dt = 2
ExampleRange(r) ==
    (source.timeRange = <<F(0), F(10)>> /\ dt = F(2))
    => /\ (source.type = "event" /\ duration = F(3)) => r = <<0, 4>>
       /\ (source.type = "event" /\ duration = F(11)) => r = <<0, 0>>
       /\ source.type = "frame" => r = <<0, 5>>

\* C17: for 0 <= t0 <= t1, dt > 0 and duration >= 0, getFrameRange returns
\* [0, 0) for an event source with t1 - duration < t0 and otherwise
\* [floor(t0 / dt), floor((t1 - duration) / dt) + 1); for a frame source
\* [floor(t0 / dt), ceil(t1 / dt)); and isInFrameRange(f) is true exactly
\* when first <= f < last of that range.
C17_FrameRange ==
    /\ ClaimedRange(getFrameRange(source, dt, duration))
    /\ op.name = "getFrameRange"
       => (ClaimedRange(op.range) /\ ExampleRange(op.range))
    /\ op.name = "isInFrameRange"
       => LET r == getFrameRange(source, dt, duration)
          IN  op.ret = (r[1] <= op.frame /\ op.frame < r[2])

C17_Witness ==
    /\ op.name = "getFrameRange"
    /\ source.timeRange = <<F(0), F(10)>>
    /\ source.type = "event"
    /\ dt = F(2)
    /\ duration = F(3)
    /\ op.range = <<0, 4>>

(* -------------------------------- C18 --------------------------------- *)
\* C18: setFrame(f) with f outside the frame range returns false and
\* leaves currentTime and everything else as it was; with f inside it
\* returns true and currentTime is t0 + dt * f.  setTime(t) sets
\* currentTime to t and leaves the buffer and the index alone.
C18_SetFrame ==
    [][ /\ op'.name = "setFrame"
           => LET r == getFrameRange(source, dt, duration)
                  f == op'.frame
              IN  IF f < r[1] \/ f >= r[2]
                  THEN /\ ~op'.ret
                       /\ UNCHANGED <<currentTime, dt, duration, source>>
                       /\ UNCHANGED Program
                  ELSE /\ op'.ret
                       /\ currentTime'
                              = FAdd(source.timeRange[1], FMul(dt, F(f)))
                       /\ UNCHANGED Program
        /\ op'.name = "setTime"
           => (currentTime' = op'.time /\ UNCHANGED Program) ]_vars

\* frame 1 of a source that starts at t0 = 3 with dt = 2 has been set
C18_Witness ==
    /\ op.name = "setFrame"
    /\ op.ret
    /\ op.frame = 1
    /\ source.timeRange[1] = F(3)
    /\ dt = F(2)
    /\ currentTime = F(5)

(* -------------------------------- C19 --------------------------------- *)
\* C19: no step of findEvents reads the index while the assignment to it
\* or its clear() is in progress: every test and every query of a
\* findEvents is made while the writer is outside both, and the query
\* sees the index as it stands, whole or empty.
C19_IndexExclusion ==
    op.name = "findEvents"
    => /\ op.during = "idle"
       /\ op.step = "query" => op.seen = rtree

(* -------------------------------- C20 --------------------------------- *)
\* the floats of column c as the accessors address them
View(c) == { c * numEvents + i : i \in 0..(numEvents - 1) }
Columns == { POSX, POSY, POSZ, RADIUS, VALUE }

\* C20: in every reachable state allocSize >= numEvents, the five column
\* views are pairwise disjoint, and each lies inside the allocated block.
C20_Layout ==
    /\ allocSize >= numEvents
    /\ \A c \in Columns, d \in Columns : c # d => View(c) \cap View(d) = {}
    /\ \A c \in Columns : \A k \in View(c) : k < Len(events)


(* -------------------------------- C21 --------------------------------- *)
\* C21: after a setFrame(f) that returned true, currentTime lies inside
\* the data time interval of the source, t0 <= currentTime <= t1, for
\* every t0 >= 0, every dt > 0 and both source kinds.
C21_TimeInInterval ==
    (op.name = "setFrame" /\ op.ret)
    => /\ FLeq(source.timeRange[1], currentTime)
       /\ FLeq(currentTime, source.timeRange[2])

====
